---- MODULE Spec2Model ----
(***************************************************************************)
(* Model of metagpt/environment/base_env.py (Environment: agent registry,  *)
(* address table, publish_message, run) and of metagpt/enhanced_logger.py  *)
(* (the log sink publish_message notifies).                                *)
(*                                                                         *)
(* A Python string is modelled as a sequence of tokens, "." being the      *)
(* separator token, so that formatting and splitting are real operations.  *)
(* A Python dict is modelled as a sequence of entries in insertion order.  *)
(***************************************************************************)
EXTENDS Integers, Sequences, FiniteSets, TLC

\* ---------------------------------------------------------------- bounds
\* add_role / set_addresses / configure calls explored
MaxSetup == 2
\* publish_message calls explored (by callers and by running agents)
MaxPublish == 2
\* largest k of run(k) explored
MaxK == 2
\* calls of registered functions explored
MaxCalls == 1
\* log calls that reach _append_log_entry explored
MaxLog == 2

\* ------------------------------------------------------------- universes
\* The separator of a dotted string such as a class path.
Dot == "."

\* The role objects that exist; each has a name, a class and a module.  The
\* third is a Coder of another module whose name reads like the class path of
\* the first.
RoleObjs == {"r1", "r2", "r3"}
RoleName == [r1 |-> <<"Alice">>, r2 |-> <<"Bob">>, r3 |-> <<"pkg", Dot, "Coder">>]
RoleClass == [r1 |-> <<"Coder">>, r2 |-> <<"Tester">>, r3 |-> <<"Coder">>]
RoleModule == [r1 |-> <<"pkg">>, r2 |-> <<"pkg">>, r3 |-> <<"lib">>]
\* role.addresses, the addresses a role subscribes to when it joins.
RoleAddrs == [r1 |-> {"x"}, r2 |-> {"y"}, r3 |-> {"x", "y"}]

Addresses == {"x", "y"}
\* MESSAGE_ROUTE_TO_ALL, the sentinel a message targets to reach everyone.
ALL == "<all>"
None == "None"

\* The messages published: content, sent_from (a string), send_to (a set).
Contents == {<<"hi">>}
Senders == {<<>>, <<"Alice">>, <<"main", Dot, "Tester">>}
Targets == {{"x"}, {"x", "y"}, {ALL}}
Messages == [content : Contents, sent_from : Senders, send_to : Targets]
NoMsg == [content |-> <<>>, sent_from |-> <<>>, send_to |-> {}]

\* The log files: one the caller names, one at the default (timestamped) path.
LogPaths == {"p", "d"}

\* What can go wrong in the logging path of one publish_message call: nothing,
\* a failure while formatting the sender or the recipients, a failure of the
\* sink's file I/O (which leaves the file as it was, or truncated).
Faults == {"none", "format", "io"}

VARIABLES
  roles,          \* Environment.roles: the registered role objects, in dict order
  member_addrs,   \* Environment.member_addrs: entries [role, addrs], in dict order
  inbox,          \* role.rc.msg_buffer of every role object
  history,        \* Environment.history, the debug log of published messages
  enabled,        \* enhanced_logger.enabled
  log_file_path,  \* enhanced_logger.log_file_path
  logFile,        \* the entries held by the log file at each path
  ret,            \* the last publish_message call and its outcome
  routeLog,       \* every routing decided so far: target, table, recipients
  nSetup,         \* number of setup calls made
  nPub,           \* number of publish_message calls made
  runPc,          \* where Environment.run is: idle, loop, awaiting, returned, raised
  runK,           \* the k of the run(k) call
  round,          \* rounds of the run(k) call finished so far
  futures,        \* the futures list of the current round: roles, in order
  task,           \* state of each role's latest run: none, pending, running, done,
                  \* failed, cancelled
  taskRound,      \* the round (1-based) each role's latest run was dispatched in
  outer,          \* the future asyncio.gather returned: state and exception
  failOrder,      \* the roles whose run raised in the current round, in order
  callRet,        \* the last query or API call and its outcome
  idleSeen,       \* what is_idle first returned since run was last called
  readReg,        \* env_read_api_registry: entries [name, func], in dict order
  writeReg,       \* env_write_api_registry: entries [name, func], in dict order
  invoked,        \* every call of a registered function so far, in order
  file_lock,      \* enhanced_logger.file_lock: the thread holding it, or None
  logThread,      \* where each thread is in its log call, with its locals
  logCalls        \* the entries handed to _append_log_entry so far and their fate

busVars == <<roles, member_addrs, inbox, history, enabled, log_file_path, logFile,
             ret, routeLog, nSetup, nPub>>
runVars == <<runPc, runK, round, futures, task, taskRound, outer, failOrder>>
apiVars == <<readReg, writeReg, invoked>>
callVars == <<callRet, idleSeen, apiVars>>
sinkVars == <<file_lock, logThread, logCalls>>
vars == <<busVars, runVars, callVars, sinkVars>>

\* ------------------------------------------------------- sequence helpers
Range(s) == {s[i] : i \in 1..Len(s)}

RECURSIVE SeqFilter(_, _)
SeqFilter(s, keep) ==
  IF s = <<>> THEN <<>>
  ELSE IF Head(s) \in keep THEN <<Head(s)>> \o SeqFilter(Tail(s), keep)
       ELSE SeqFilter(Tail(s), keep)

\* The index of x in s, 0 when absent.
IndexOf(s, x) ==
  IF \E i \in 1..Len(s) : s[i] = x
  THEN CHOOSE i \in 1..Len(s) : s[i] = x /\ \A j \in 1..(i - 1) : s[j] # x
  ELSE 0

\* str.split(".")[-1]: the tokens after the last separator.
RECURSIVE LastSegment(_)
LastSegment(s) ==
  IF s = <<>> THEN <<>>
  ELSE IF Dot \in Range(Tail(s)) THEN LastSegment(Tail(s))
       ELSE IF Head(s) = Dot THEN Tail(s) ELSE s

\* ------------------------------------------------------- address table
TableKeys(tbl) == [i \in 1..Len(tbl) |-> tbl[i].role]
TableRoles(tbl) == {tbl[i].role : i \in 1..Len(tbl)}

\* dict.get(obj, {})
get_addresses(tbl, obj) ==
  IF obj \in TableRoles(tbl) THEN tbl[IndexOf(TableKeys(tbl), obj)].addrs ELSE {}

\* A set_addresses that adds the addresses to those the object has.
set_addresses_Merge(tbl, obj, addresses) ==
  IF obj \in TableRoles(tbl)
  THEN [tbl EXCEPT ![IndexOf(TableKeys(tbl), obj)].addrs = @ \cup addresses]
  ELSE Append(tbl, [role |-> obj, addrs |-> addresses])

\* member_addrs[obj] = addresses: an existing key keeps its place in the dict.
set_addresses(tbl, obj, addresses) ==
  IF obj \in TableRoles(tbl)
  THEN [tbl EXCEPT ![IndexOf(TableKeys(tbl), obj)].addrs = addresses]
  ELSE Append(tbl, [role |-> obj, addrs |-> addresses])

\* metagpt.utils.common.is_send_to: the message targets ALL or one of addrs.
is_send_to(message, addrs) ==
  ALL \in message.send_to \/ \E i \in addrs : i \in message.send_to

\* role.put_message(message): push onto the role's message buffer.
put_message(inb, role, message) == [inb EXCEPT ![role] = Append(@, message)]

\* Memory.add(message) on the debug history.
history_add(h, message) == Append(h, message)

\* ----------------------------------------------------- sender resolver
\* metagpt.utils.common.any_to_str of a role object: module.ClassName
any_to_str(role) == RoleModule[role] \o <<Dot>> \o RoleClass[role]

\* The first role of rls, in dict order, that is in the set among; None if none.
FirstRole(rls, among) ==
  LET hits == {i \in 1..Len(rls) : rls[i] \in among}
  IN IF hits = {} THEN None
     ELSE rls[CHOOSE i \in hits : \A j \in hits : i <= j]

\* A resolver that knows a sender by its role name only.
_find_sender_role_NameOnly(rls, sent_from) ==
  IF sent_from = <<>> THEN None
  ELSE FirstRole(rls, {r \in RoleObjs : RoleName[r] = sent_from})

\* A resolver that tries the class name first, the role name last.
_find_sender_role_ClassFirst(rls, sent_from) ==
  IF sent_from = <<>> THEN None
  ELSE LET byName == FirstRole(rls, {r \in RoleObjs : RoleName[r] = sent_from})
           byStr == FirstRole(rls, {r \in RoleObjs : any_to_str(r) = sent_from})
           byClass == FirstRole(rls, {r \in RoleObjs :
                                        RoleClass[r] = LastSegment(sent_from)})
       IN IF Dot \in Range(sent_from) /\ byClass # None THEN byClass
          ELSE IF byStr # None THEN byStr
          ELSE byName

_find_sender_role(rls, sent_from) ==
  IF sent_from = <<>> THEN None
  ELSE LET byName == FirstRole(rls, {r \in RoleObjs : RoleName[r] = sent_from})
           byStr == FirstRole(rls, {r \in RoleObjs : any_to_str(r) = sent_from})
           byClass == FirstRole(rls, {r \in RoleObjs :
                                        RoleClass[r] = LastSegment(sent_from)})
       IN IF byName # None THEN byName
          ELSE IF byStr # None THEN byStr
          ELSE IF Dot \in Range(sent_from) THEN byClass
          ELSE None

NameAndClass(role) == RoleName[role] \o <<"(">> \o RoleClass[role] \o <<")">>

\* A formatting that falls back to the raw sent_from whatever it holds.
_format_sender_RawFallback(rls, message) ==
  IF message.sent_from = <<>> THEN <<"Unknown">>
  ELSE LET sender_role == _find_sender_role(rls, message.sent_from)
       IN IF sender_role # None THEN NameAndClass(sender_role)
          ELSE message.sent_from

_format_sender(rls, message) ==
  IF message.sent_from = <<>> THEN <<"Unknown">>
  ELSE LET sender_role == _find_sender_role(rls, message.sent_from)
       IN IF sender_role # None THEN NameAndClass(sender_role)
          ELSE IF Dot \in Range(message.sent_from)
               THEN <<"Unknown", "(">> \o LastSegment(message.sent_from) \o <<")">>
               ELSE message.sent_from

\* A recipient list that leaves out the roles reached through the ALL sentinel.
RECURSIVE _format_recipients_NoAll(_, _)
_format_recipients_NoAll(tbl, message) ==
  IF tbl = <<>> THEN <<>>
  ELSE (IF Head(tbl).addrs \cap message.send_to # {}
        THEN <<NameAndClass(Head(tbl).role)>> ELSE <<>>)
       \o _format_recipients_NoAll(Tail(tbl), message)

RECURSIVE _format_recipients(_, _)
_format_recipients(tbl, message) ==
  IF tbl = <<>> THEN <<>>
  ELSE (IF is_send_to(message, Head(tbl).addrs)
        THEN <<NameAndClass(Head(tbl).role)>> ELSE <<>>)
       \o _format_recipients(Tail(tbl), message)

\* ------------------------------------------------------------ log sink
\* EnhancedLogger._append_log_entry: read the file, append, write it back.
\* A file that is missing or unreadable reads as no entries.  An I/O failure
\* is caught inside; the failed write may have truncated the file.
_append_log_entry(path, files, entry, fault, truncated) ==
  IF path = None THEN files
  ELSE IF fault = "io" THEN (IF truncated THEN [files EXCEPT ![path] = <<>>] ELSE files)
  ELSE [files EXCEPT ![path] = Append(@, entry)]

\* EnhancedLogger.log_agent_message
log_agent_message(on, path, files, sender, recipients, content, fault, truncated) ==
  IF ~on THEN files
  ELSE _append_log_entry(path, files,
         [event |-> "message", sender |-> sender, recipients |-> recipients,
          content |-> content], fault, truncated)

\* Variant: the entry is appended whether or not the sink is enabled.
log_api_request_Always(on, path, files, model, request, response, fault, truncated) ==
  _append_log_entry(path, files,
    [event |-> "api_request", model |-> model, request |-> request,
     response |-> response], fault, truncated)

\* EnhancedLogger.log_api_request
log_api_request(on, path, files, model, request, response, fault, truncated) ==
  IF ~on THEN files
  ELSE _append_log_entry(path, files,
         [event |-> "api_request", model |-> model, request |-> request,
          response |-> response], fault, truncated)

\* The try block of _log_enhanced_message: [file, raised] after it.  Formatting
\* the sender or the recipients may fail; nothing is logged then.
LogAttempt(message, fault, truncated) ==
  IF fault = "format" THEN [file |-> logFile, raised |-> TRUE]
  ELSE [file |-> log_agent_message(enabled, log_file_path, logFile,
                   _format_sender(roles, message),
                   _format_recipients(member_addrs, message),
                   message.content, fault, truncated),
        raised |-> FALSE]

\* Variant: no except clause, the failure leaves _log_enhanced_message.
_log_enhanced_message_NoExcept(message, fault, truncated) ==
  LogAttempt(message, fault, truncated)

\* Environment._log_enhanced_message: the except clause swallows the failure.
_log_enhanced_message(message, fault, truncated) ==
  [LogAttempt(message, fault, truncated) EXCEPT !.raised = FALSE]

\* ------------------------------------------------------- publish_message
\* The routing loop of publish_message over member_addrs.items():
\* [inbox, found, to] after the loop, to being the roles delivered to, in order.
SeqOf(x, n) == [i \in 1..n |-> x]

\* Variant: the loop stops at the first recipient found.
RECURSIVE Route_Break(_, _, _)
Route_Break(tbl, inb, message) ==
  IF tbl = <<>> THEN [inbox |-> inb, found |-> FALSE, to |-> <<>>]
  ELSE IF is_send_to(message, Head(tbl).addrs)
       THEN [inbox |-> put_message(inb, Head(tbl).role, message), found |-> TRUE,
             to |-> <<Head(tbl).role>>]
       ELSE Route_Break(Tail(tbl), inb, message)

\* Variant: only an address in common counts, the ALL sentinel is not honoured.
RECURSIVE Route_NoAll(_, _, _)
Route_NoAll(tbl, inb, message) ==
  IF tbl = <<>> THEN [inbox |-> inb, found |-> FALSE, to |-> <<>>]
  ELSE IF Head(tbl).addrs \cap message.send_to # {}
       THEN LET rest == Route_NoAll(Tail(tbl), put_message(inb, Head(tbl).role, message), message)
            IN [rest EXCEPT !.found = TRUE, !.to = <<Head(tbl).role>> \o @]
       ELSE Route_NoAll(Tail(tbl), inb, message)

\* Variant: the message is put once per address the role and the target share.
RECURSIVE Route_PerAddress(_, _, _)
Route_PerAddress(tbl, inb, message) ==
  IF tbl = <<>> THEN [inbox |-> inb, found |-> FALSE, to |-> <<>>]
  ELSE IF is_send_to(message, Head(tbl).addrs)
       THEN LET n == IF ALL \in message.send_to THEN 1
                     ELSE Cardinality(Head(tbl).addrs \cap message.send_to)
                r == Head(tbl).role
                rest == Route_PerAddress(Tail(tbl),
                          [inb EXCEPT ![r] = @ \o SeqOf(message, n)], message)
            IN [rest EXCEPT !.found = TRUE, !.to = <<r>> \o @]
       ELSE Route_PerAddress(Tail(tbl), inb, message)

\* Variant: the role the sender resolves to is left out of the delivery.
RECURSIVE Route_SkipSender(_, _, _)
Route_SkipSender(tbl, inb, message) ==
  IF tbl = <<>> THEN [inbox |-> inb, found |-> FALSE, to |-> <<>>]
  ELSE IF /\ is_send_to(message, Head(tbl).addrs)
          /\ Head(tbl).role # _find_sender_role(roles, message.sent_from)
       THEN LET rest == Route_SkipSender(Tail(tbl),
                          put_message(inb, Head(tbl).role, message), message)
            IN [rest EXCEPT !.found = TRUE, !.to = <<Head(tbl).role>> \o @]
       ELSE Route_SkipSender(Tail(tbl), inb, message)

RECURSIVE Route(_, _, _)
Route(tbl, inb, message) ==
  IF tbl = <<>> THEN [inbox |-> inb, found |-> FALSE, to |-> <<>>]
  ELSE IF is_send_to(message, Head(tbl).addrs)
       THEN LET rest == Route(Tail(tbl), put_message(inb, Head(tbl).role, message), message)
            IN [rest EXCEPT !.found = TRUE, !.to = <<Head(tbl).role>> \o @]
       ELSE Route(Tail(tbl), inb, message)

\* Variant: the found flag is returned.
PublishResult_Found(found) == found

\* The value publish_message returns.
PublishResult(found) == TRUE

NoRet == [op |-> "none", msg |-> NoMsg, value |-> None, raised |-> FALSE,
          to |-> <<>>, warned |-> FALSE, fault |-> "none"]

\* Variant: the history is written only when a recipient was found.
Publish_HistoryIfFound(message, fault, truncated) ==
  LET logged == _log_enhanced_message(message, fault, truncated)
      routed == Route(member_addrs, inbox, message)
  IN /\ logFile' = logged.file
     /\ inbox' = routed.inbox
     /\ history' = IF routed.found THEN history_add(history, message) ELSE history
     /\ ret' = [op |-> "publish", msg |-> message,
                value |-> PublishResult(routed.found),
                raised |-> FALSE, to |-> routed.to, warned |-> ~routed.found,
                fault |-> fault]
     /\ routeLog' = routeLog \cup
          {[send_to |-> message.send_to, table |-> member_addrs,
            to |-> Range(routed.to)]}

\* The effect of one publish_message(message) call on the environment.
Publish(message, fault, truncated) ==
  LET logged == _log_enhanced_message(message, fault, truncated)
      routed == Route(member_addrs, inbox, message)
  IN IF logged.raised
     THEN /\ logFile' = logged.file
          /\ ret' = [NoRet EXCEPT !.op = "publish", !.msg = message, !.raised = TRUE,
                                  !.fault = fault]
          /\ UNCHANGED <<inbox, history, routeLog>>
     ELSE /\ logFile' = logged.file
          /\ inbox' = routed.inbox
          /\ history' = history_add(history, message)
          /\ ret' = [op |-> "publish", msg |-> message,
                     value |-> PublishResult(routed.found),
                     raised |-> FALSE, to |-> routed.to, warned |-> ~routed.found,
                     fault |-> fault]
          /\ routeLog' = routeLog \cup
               {[send_to |-> message.send_to, table |-> member_addrs,
                 to |-> Range(routed.to)]}

\* ------------------------------------------------------------ agent runs
\* role.is_idle: the role has no pending work.
role_is_idle(inb, role) == inb[role] = <<>>

\* ------------------------------------------------------------------ run
\* Variant: every registered role is dispatched, idle or not.
CollectFutures_All(rls, inb) == rls

\* The collection loop of one round: the non-idle registered roles, in order.
RECURSIVE CollectFutures(_, _)
CollectFutures(rls, inb) ==
  IF rls = <<>> THEN <<>>
  ELSE IF role_is_idle(inb, Head(rls)) THEN CollectFutures(Tail(rls), inb)
       ELSE <<Head(rls)>> \o CollectFutures(Tail(rls), inb)

\* An is_idle that is satisfied by the first idle role it meets.
is_idle_Any(rls, inb) == \E i \in 1..Len(rls) : role_is_idle(inb, rls[i])

\* A read of is_idle that takes the pending messages of the first busy role.
is_idle_Consuming(rls, inb) ==
  IF \E i \in 1..Len(rls) : ~role_is_idle(inb, rls[i])
  THEN LET i == CHOOSE j \in 1..Len(rls) :
                  /\ ~role_is_idle(inb, rls[j])
                  /\ \A h \in 1..(j - 1) : role_is_idle(inb, rls[h])
       IN [inb EXCEPT ![rls[i]] = <<>>]
  ELSE inb

\* Environment.is_idle: False at the first role that is not idle, else True.
RECURSIVE is_idle(_, _)
is_idle(rls, inb) ==
  IF rls = <<>> THEN TRUE
  ELSE IF ~role_is_idle(inb, Head(rls)) THEN FALSE
  ELSE is_idle(Tail(rls), inb)

NoExc == "NoExc"
OuterPending == [state |-> "pending", exc |-> NoExc]

\* Variant: the outer future is done as soon as one child has finished.
GatherOnDone_FirstCompleted(out, futs, tsk, r, failed) ==
  IF out.state # "pending" \/ r \notin Range(futs) THEN out
  ELSE IF failed THEN [state |-> "exception", exc |-> r]
  ELSE [state |-> "result", exc |-> NoExc]

\* Variant: every child is awaited, then the first failure is raised.
GatherOnDone_WaitAll(out, futs, tsk, r, failed) ==
  IF out.state # "pending" \/ r \notin Range(futs) THEN out
  ELSE IF \E q \in Range(futs) : tsk[q] \notin {"done", "failed"} THEN out
  ELSE IF \E q \in Range(futs) : tsk[q] = "failed"
       THEN [state |-> "exception",
             exc |-> IF failOrder = <<>> THEN r ELSE failOrder[1]]
       ELSE [state |-> "result", exc |-> NoExc]

\* asyncio.gather(*futures) without return_exceptions, when the run of role r
\* finishes (failed or not) leaving the tasks tsk: the first exception is set on
\* the outer future at once; the result is set once every child has finished.
GatherOnDone(out, futs, tsk, r, failed) ==
  IF out.state # "pending" \/ r \notin Range(futs) THEN out
  ELSE IF failed THEN [state |-> "exception", exc |-> r]
  ELSE IF \A q \in Range(futs) : tsk[q] \in {"done", "failed"}
       THEN [state |-> "result", exc |-> NoExc]
       ELSE out

\* A gather that cancels the unfinished children when one of them fails.
GatherChildren_CancelOnFail(tsk, futs, r, failed) ==
  IF failed /\ r \in Range(futs)
  THEN [q \in RoleObjs |->
          IF q \in Range(futs) /\ tsk[q] \in {"pending", "running"}
          THEN "cancelled" ELSE tsk[q]]
  ELSE tsk

\* What asyncio.gather(*futures) without return_exceptions does to its children
\* when the run of role r finishes, leaving the tasks tsk: nothing; a child's
\* failure does not cancel the others.
GatherChildren(tsk, futs, r, failed) == tsk

\* An I/O failure needs the sink to do I/O: enabled, with a log file path.
CanFail(fault, truncated) ==
  /\ fault = "io" => (enabled /\ log_file_path # None)
  /\ truncated => fault = "io"

\* ------------------------------------------------- log sink, thread by thread
\* The threads that call the sink, and the events they log.
Threads == {"t1", "t2"}
LogEvents == {"message", "api_request"}

\* A thread outside any log call: index of its call in logCalls, entries read.
ThreadIdle == [pc |-> "idle", call |-> 0, entries |-> <<>>]

\* A with statement that does not wait for the lock.
LockFree_NoLock(lock) == TRUE

\* with self.file_lock: a thread gets in when no thread holds the lock.
LockFree(lock) == lock = None

\* No query or API call is the last call made.
NoCall == [op |-> "none", arg |-> None, value |-> None, raised |-> None, call |-> <<>>]

\* Any other operation: it is now the last call, and it leaves what is_idle was
\* seen to return and the capability registries alone.
OtherCall ==
  /\ callRet' = NoCall
  /\ UNCHANGED <<idleSeen, apiVars, sinkVars>>

\* --------------------------------------------------------------- actions
Init ==
  /\ roles = <<>>
  /\ member_addrs = <<>>
  /\ inbox = [r \in RoleObjs |-> <<>>]
  /\ history = <<>>
  /\ enabled = FALSE
  /\ log_file_path = None
  /\ logFile = [p \in LogPaths |-> <<>>]
  /\ ret = NoRet
  /\ routeLog = {}
  /\ nSetup = 0
  /\ nPub = 0
  /\ runPc = "idle"
  /\ runK = 0
  /\ round = 0
  /\ futures = <<>>
  /\ task = [r \in RoleObjs |-> "none"]
  /\ taskRound = [r \in RoleObjs |-> 0]
  /\ outer = OuterPending
  /\ failOrder = <<>>
  /\ callRet = NoCall
  /\ idleSeen = <<>>
  /\ readReg = <<>>
  /\ writeReg = <<>>
  /\ invoked = <<>>
  /\ file_lock = None
  /\ logThread = [t \in Threads |-> ThreadIdle]
  /\ logCalls = <<>>

\* role.set_env(env): the role subscribes its own addresses in the table.
set_env(tbl, role) == set_addresses(tbl, role, RoleAddrs[role])

\* roles[role.name] = role: an existing name keeps its place in the dict.
RegisterRole(rls, role) ==
  IF \E i \in 1..Len(rls) : RoleName[rls[i]] = RoleName[role]
  THEN [i \in 1..Len(rls) |-> IF RoleName[rls[i]] = RoleName[role] THEN role ELSE rls[i]]
  ELSE Append(rls, role)

\* Environment.add_role(role)
AddRole ==
  \E r \in RoleObjs :
    /\ runPc = "idle"
    /\ nSetup < MaxSetup
    /\ nSetup' = nSetup + 1
    /\ roles' = RegisterRole(roles, r)
    /\ member_addrs' = set_env(member_addrs, r)
    /\ UNCHANGED <<inbox, history, enabled, log_file_path, logFile, ret,
                   routeLog, nPub, runVars>>
    /\ OtherCall

\* The batches add_roles is called with: some of the role objects, each once.
RoleOrder == <<"r1", "r2", "r3">>
Batches == {SeqFilter(RoleOrder, S) : S \in (SUBSET RoleObjs) \ {{}}}

RECURSIVE RegisterAll(_, _)
RegisterAll(rls, batch) ==
  IF batch = <<>> THEN rls
  ELSE RegisterAll(RegisterRole(rls, Head(batch)), Tail(batch))

RECURSIVE SetEnvAll(_, _)
SetEnvAll(tbl, batch) ==
  IF batch = <<>> THEN tbl ELSE SetEnvAll(set_env(tbl, Head(batch)), Tail(batch))

\* Environment.add_roles(roles)
AddRoles ==
  \E batch \in Batches :
    /\ runPc = "idle"
    /\ nSetup < MaxSetup
    /\ nSetup' = nSetup + 1
    /\ roles' = RegisterAll(roles, batch)
    /\ member_addrs' = SetEnvAll(member_addrs, batch)
    /\ UNCHANGED <<inbox, history, enabled, log_file_path, logFile, ret,
                   routeLog, nPub, runVars>>
    /\ OtherCall

\* Environment.set_addresses(obj, addresses)
SetAddresses ==
  \E r \in RoleObjs, S \in SUBSET Addresses :
    /\ runPc = "idle"
    /\ nSetup < MaxSetup
    /\ nSetup' = nSetup + 1
    /\ member_addrs' = set_addresses(member_addrs, r, S)
    /\ callRet' = [op |-> "set_addresses", arg |-> r, value |-> S, raised |-> None,
                   call |-> <<>>]
    /\ UNCHANGED <<roles, inbox, history, enabled, log_file_path, logFile, ret,
                   routeLog, nPub, runVars, idleSeen, apiVars, sinkVars>>

\* EnhancedLogger.configure(enabled, log_file_path)
Configure ==
  \E on \in BOOLEAN, path \in {None, "p"} :
    /\ runPc = "idle"
    /\ nSetup < MaxSetup
    /\ nSetup' = nSetup + 1
    /\ enabled' = on
    /\ log_file_path' = IF on THEN (IF path # None THEN path ELSE "d")
                        ELSE log_file_path
    /\ UNCHANGED <<roles, member_addrs, inbox, history, logFile, ret, routeLog,
                   nPub, runVars>>
    /\ OtherCall

\* Environment.publish_message(message), called from outside a run with one
\* of the messages msgs while the logging path meets one of the faults.
PublishCall(msgs, faults) ==
  \E m \in msgs, fault \in faults, truncated \in BOOLEAN :
    /\ runPc = "idle"
    /\ nPub < MaxPublish
    /\ nPub' = nPub + 1
    /\ CanFail(fault, truncated)
    /\ Publish(m, fault, truncated)
    /\ UNCHANGED <<roles, member_addrs, enabled, log_file_path, nSetup, runVars>>
    /\ OtherCall

PublishMessage == PublishCall(Messages, Faults)

\* The messages a caller starts a run with: no sender, any target.
KickoffMessages == {m \in Messages : m.sent_from = <<>>}

PublishKickoff == PublishCall(KickoffMessages, {"none"})

\* Environment.run(k) is called.
RunCall ==
  \E k \in 0..MaxK :
    /\ runPc = "idle"
    /\ runPc' = "loop"
    /\ runK' = k
    /\ round' = 0
    /\ callRet' = NoCall
    /\ idleSeen' = <<>>
    /\ UNCHANGED <<busVars, futures, task, taskRound, outer, failOrder, apiVars, sinkVars>>

\* One pass of the for loop of run up to the await: collect the futures of the
\* non-idle roles and hand them to asyncio.gather, or finish the round at once
\* when there are none.
RoundCollect ==
  /\ runPc = "loop"
  /\ round < runK
  /\ LET futs == CollectFutures(roles, inbox)
     IN /\ futures' = futs
        /\ IF futs = <<>>
           THEN /\ round' = round + 1
                /\ UNCHANGED <<runPc, task, taskRound, outer, failOrder>>
           ELSE /\ runPc' = "awaiting"
                /\ task' = [r \in RoleObjs |->
                              IF r \in Range(futs) THEN "pending" ELSE task[r]]
                /\ taskRound' = [r \in RoleObjs |->
                              IF r \in Range(futs) THEN round + 1 ELSE taskRound[r]]
                /\ outer' = OuterPending
                /\ failOrder' = <<>>
                /\ UNCHANGED round
  /\ UNCHANGED <<busVars, runK>>
  /\ OtherCall

\* A run that gives up as soon as a round finds no role to run.
RunReturn_WhenQuiet ==
  /\ runPc = "loop"
  /\ (round = runK \/ CollectFutures(roles, inbox) = <<>>)
  /\ runPc' = "returned"
  /\ UNCHANGED <<busVars, runK, round, futures, task, taskRound, outer, failOrder>>
  /\ OtherCall

\* run(k) has done its k rounds and returns.
RunReturn ==
  /\ runPc = "loop"
  /\ round = runK
  /\ runPc' = "returned"
  /\ UNCHANGED <<busVars, runK, round, futures, task, taskRound, outer, failOrder>>
  /\ OtherCall

\* The run of role r starts: it takes the messages of its buffer.
TaskStart ==
  \E r \in RoleObjs :
    /\ task[r] = "pending"
    /\ task' = [task EXCEPT ![r] = "running"]
    /\ inbox' = [inbox EXCEPT ![r] = <<>>]
    /\ UNCHANGED <<roles, member_addrs, history, enabled, log_file_path, logFile,
                   ret, routeLog, nSetup, nPub>>
    /\ UNCHANGED <<runPc, runK, round, futures, taskRound, outer, failOrder>>
    /\ OtherCall

\* The running role r publishes a message of its own through the environment.
TaskPublish ==
  \E r \in RoleObjs, target \in Targets, c \in Contents :
    /\ task[r] = "running"
    /\ nPub < MaxPublish
    /\ nPub' = nPub + 1
    /\ Publish([content |-> c, sent_from |-> RoleName[r], send_to |-> target],
               "none", FALSE)
    /\ UNCHANGED <<roles, member_addrs, enabled, log_file_path, nSetup, runVars>>
    /\ OtherCall

\* The run of role r ends, normally or by raising; asyncio.gather is told.
TaskEnd ==
  \E r \in RoleObjs, failed \in BOOLEAN :
    /\ task[r] = "running"
    /\ task' = GatherChildren([task EXCEPT ![r] = IF failed THEN "failed" ELSE "done"],
                              futures, r, failed)
    /\ failOrder' = IF failed THEN Append(failOrder, r) ELSE failOrder
    /\ outer' = GatherOnDone(outer, futures, task', r, failed)
    /\ UNCHANGED <<busVars, runPc, runK, round, futures, taskRound>>
    /\ OtherCall

\* A run that, when the round's runs are over, collects and dispatches again
\* within the same round the roles that got a message meanwhile.
GatherWake_Recollect ==
  /\ runPc = "awaiting"
  /\ outer.state # "pending"
  /\ IF outer.state = "exception"
     THEN runPc' = "raised" /\ UNCHANGED <<round, futures, task, taskRound, outer>>
     ELSE LET futs == CollectFutures(roles, inbox)
          IN IF futs = <<>>
             THEN /\ runPc' = "loop" /\ round' = round + 1
                  /\ UNCHANGED <<futures, task, taskRound, outer>>
             ELSE /\ runPc' = "awaiting"
                  /\ futures' = futs
                  /\ task' = [r \in RoleObjs |->
                                IF r \in Range(futs) THEN "pending" ELSE task[r]]
                  /\ taskRound' = [r \in RoleObjs |->
                                IF r \in Range(futs) THEN round + 1 ELSE taskRound[r]]
                  /\ outer' = OuterPending
                  /\ UNCHANGED round
  /\ UNCHANGED <<busVars, runK, failOrder>>
  /\ OtherCall

\* A run that swallows the failure of a round and goes on with the next one.
GatherWake_Swallow ==
  /\ runPc = "awaiting"
  /\ outer.state # "pending"
  /\ runPc' = "loop"
  /\ round' = round + 1
  /\ UNCHANGED <<busVars, runK, futures, task, taskRound, outer, failOrder>>
  /\ OtherCall

\* run resumes from await asyncio.gather(*futures): the exception propagates
\* out of run, or the round is over.
GatherWake ==
  /\ runPc = "awaiting"
  /\ outer.state # "pending"
  /\ IF outer.state = "exception"
     THEN runPc' = "raised" /\ UNCHANGED round
     ELSE runPc' = "loop" /\ round' = round + 1
  /\ UNCHANGED <<busVars, runK, futures, task, taskRound, outer, failOrder>>
  /\ OtherCall

Next ==
  \/ AddRole
  \/ SetAddresses
  \/ Configure
  \/ PublishMessage

Spec == Init /\ [][Next]_vars

RunNext ==
  \/ AddRoles
  \/ PublishKickoff
  \/ RunCall
  \/ RoundCollect
  \/ RunReturn
  \/ TaskStart
  \/ TaskPublish
  \/ TaskEnd
  \/ GatherWake

RunSpec == Init /\ [][RunNext]_vars

\* A read of is_idle that empties the buffer of the first busy role it meets.
IsIdleRead_Consuming ==
  /\ runPc \in {"idle", "returned", "raised"}
  /\ LET v == is_idle(roles, inbox)
     IN /\ callRet' = [op |-> "is_idle", arg |-> None, value |-> v, raised |-> None,
                        call |-> <<>>]
        /\ idleSeen' = IF idleSeen = <<>> THEN <<v>> ELSE idleSeen
  /\ inbox' = is_idle_Consuming(roles, inbox)
  /\ UNCHANGED <<roles, member_addrs, history, enabled, log_file_path, logFile,
                 ret, routeLog, nSetup, nPub, runVars, apiVars, sinkVars>>

\* The environment's is_idle, read by a caller outside a run; a read while run
\* is suspended would see a round half done.
IsIdleRead ==
  /\ runPc \in {"idle", "returned", "raised"}
  /\ LET v == is_idle(roles, inbox)
     IN /\ callRet' = [op |-> "is_idle", arg |-> None, value |-> v, raised |-> None,
                        call |-> <<>>]
        /\ idleSeen' = IF idleSeen = <<>> THEN <<v>> ELSE idleSeen
  /\ UNCHANGED <<busVars, runVars, apiVars, sinkVars>>

IdleNext ==
  \/ AddRoles
  \/ PublishKickoff
  \/ IsIdleRead
  \/ RunCall
  \/ RoundCollect
  \/ RunReturn
  \/ TaskStart
  \/ TaskPublish
  \/ TaskEnd
  \/ GatherWake

IdleSpec == Init /\ [][IdleNext]_vars

\* ------------------------------------------------------- capability API
\* The functions a class body marks, two of them under one name, and the names
\* a caller asks for, one of them never registered.
Funcs == {"f1", "f2", "g1"}
FuncName == [f1 |-> "open_door", f2 |-> "open_door", g1 |-> "look"]
FuncAsync == [f1 |-> FALSE, f2 |-> TRUE, g1 |-> TRUE]
ApiNames == {"open_door", "look", "close"}
CallArgs == {[args |-> <<>>, kwargs |-> {}],
             [args |-> <<"a">>, kwargs |-> {<<"k", "v">>}]}

\* What env_action can be: a plain name, an EnvAPIAbstract, a Message.
ByName(n) ==
  [kind |-> "str", api_name |-> n, args |-> <<>>, kwargs |-> {}, msg |-> NoMsg]
ByDescriptor(n, args, kwargs) ==
  [kind |-> "EnvAPIAbstract", api_name |-> n, args |-> args, kwargs |-> kwargs,
   msg |-> NoMsg]
ByMessage(m) ==
  [kind |-> "Message", api_name |-> None, args |-> <<>>, kwargs |-> {}, msg |-> m]

ReadActions ==
  {ByName(n) : n \in ApiNames}
    \cup {ByDescriptor(n, c.args, c.kwargs) : n \in ApiNames, c \in CallArgs}
WriteActions ==
  ReadActions \cup {ByMessage(m) : m \in KickoffMessages}

RegNames(reg) == {reg[i].name : i \in 1..Len(reg)}

\* get_function_schema(func): the entry stored for func, with the function.
get_function_schema(func) == [name |-> FuncName[func], func |-> func]

\* registry[name] = entry: a name is written once.
registry_setitem(reg, name, entry) ==
  IF name \in RegNames(reg)
  THEN [reg |-> reg, raised |-> "DuplicateCapabilityError"]
  ELSE [reg |-> Append(reg, entry), raised |-> None]

\* registry.get(name): the entry stored under name.
registry_get(reg, name) ==
  IF name \in RegNames(reg)
  THEN [entry |-> reg[CHOOSE i \in 1..Len(reg) : reg[i].name = name],
        raised |-> None]
  ELSE [entry |-> [name |-> name, func |-> None],
        raised |-> "UnknownCapabilityError"]

\* A marking that puts the function in place of the one already registered.
mark_as_writeable_Replace(rreg, wreg, func) ==
  [readReg |-> rreg,
   writeReg |-> Append(SelectSeq(wreg, LAMBDA e : e.name # FuncName[func]),
                       get_function_schema(func)),
   raised |-> None]

\* mark_as_readable(func)
mark_as_readable(rreg, wreg, func) ==
  LET set == registry_setitem(rreg, FuncName[func], get_function_schema(func))
  IN [readReg |-> set.reg, writeReg |-> wreg, raised |-> set.raised]

\* mark_as_writeable(func)
mark_as_writeable(rreg, wreg, func) ==
  LET set == registry_setitem(wreg, FuncName[func], get_function_schema(func))
  IN [readReg |-> rreg, writeReg |-> set.reg, raised |-> set.raised]

\* ExtEnv._check_api_exist(rw_api)
_check_api_exist(rw_api) == IF rw_api = None THEN "ValueError" ELSE None

\* What a call of env_action leaves behind: the message it publishes, the
\* registered function it calls, what it returns (<<>> for None, else what
\* the function made of its arguments) and what it raises.
NoEffect == [publish |-> <<>>, call |-> <<>>, value |-> <<>>, raised |-> None]

\* res = await func(self, *args, **kwargs) or res = func(self, *args, **kwargs)
Invoke(func, args, kwargs) ==
  [NoEffect EXCEPT
     !.call = <<[func |-> func, args |-> args, kwargs |-> kwargs,
                 awaited |-> FuncAsync[func]]>>,
     !.value = <<func, args, kwargs>>]

\* The look-up, the check and the call that both branches of read_from_api
\* and the EnvAPIAbstract branch of write_thru_api go through.
CallApi(reg, name, args, kwargs) ==
  LET got == registry_get(reg, name)
  IN IF got.raised # None THEN [NoEffect EXCEPT !.raised = got.raised]
     ELSE IF _check_api_exist(got.entry.func) # None
          THEN [NoEffect EXCEPT !.raised = _check_api_exist(got.entry.func)]
     ELSE Invoke(got.entry.func, args, kwargs)

\* ExtEnv.read_from_api(env_action)
read_from_api(rreg, env_action) ==
  IF env_action.kind = "str"
  THEN CallApi(rreg, env_action.api_name, <<>>, {})
  ELSE CallApi(rreg, env_action.api_name, env_action.args, env_action.kwargs)

\* A write_thru_api that looks a Message up in the registry by its content.
write_thru_api_MessageDispatched(wreg, env_action) ==
  IF env_action.kind = "Message"
  THEN CallApi(wreg, env_action.msg.content[1], <<>>, {})
  ELSE IF env_action.kind = "EnvAPIAbstract"
  THEN CallApi(wreg, env_action.api_name, env_action.args, env_action.kwargs)
  ELSE NoEffect

\* ExtEnv.write_thru_api(env_action): res stays None for a Message and for a
\* plain name, which no branch takes up.
write_thru_api(wreg, env_action) ==
  IF env_action.kind = "Message"
  THEN [NoEffect EXCEPT !.publish = <<env_action.msg>>]
  ELSE IF env_action.kind = "EnvAPIAbstract"
  THEN CallApi(wreg, env_action.api_name, env_action.args, env_action.kwargs)
  ELSE NoEffect

\* A class body marks func as readable.
MarkAsReadable ==
  \E func \in Funcs :
    /\ runPc = "idle"
    /\ nSetup < MaxSetup
    /\ nSetup' = nSetup + 1
    /\ LET marked == mark_as_readable(readReg, writeReg, func)
       IN /\ readReg' = marked.readReg
          /\ writeReg' = marked.writeReg
          /\ callRet' = [op |-> "mark_as_readable", arg |-> func, value |-> None,
                         raised |-> marked.raised, call |-> <<>>]
    /\ UNCHANGED <<roles, member_addrs, inbox, history, enabled, log_file_path,
                   logFile, ret, routeLog, nPub, runVars, idleSeen, invoked,
                   sinkVars>>

\* A class body marks func as writeable.
MarkAsWriteable ==
  \E func \in Funcs :
    /\ runPc = "idle"
    /\ nSetup < MaxSetup
    /\ nSetup' = nSetup + 1
    /\ LET marked == mark_as_writeable(readReg, writeReg, func)
       IN /\ readReg' = marked.readReg
          /\ writeReg' = marked.writeReg
          /\ callRet' = [op |-> "mark_as_writeable", arg |-> func, value |-> None,
                         raised |-> marked.raised, call |-> <<>>]
    /\ UNCHANGED <<roles, member_addrs, inbox, history, enabled, log_file_path,
                   logFile, ret, routeLog, nPub, runVars, idleSeen, invoked,
                   sinkVars>>

\* ExtEnv.read_from_api(env_action) is called.
ReadFromApi ==
  \E env_action \in ReadActions :
    /\ runPc = "idle"
    /\ Len(invoked) < MaxCalls
    /\ LET res == read_from_api(readReg, env_action)
       IN /\ invoked' = invoked \o res.call
          /\ callRet' = [op |-> "read_from_api", arg |-> env_action,
                         value |-> res.value, raised |-> res.raised,
                         call |-> res.call]
    /\ UNCHANGED <<busVars, runVars, idleSeen, readReg, writeReg, sinkVars>>

\* ExtEnv.write_thru_api(env_action) is called.
WriteThruApi ==
  \E env_action \in WriteActions :
    /\ runPc = "idle"
    /\ Len(invoked) < MaxCalls
    /\ LET res == write_thru_api(writeReg, env_action)
       IN /\ invoked' = invoked \o res.call
          /\ callRet' = [op |-> "write_thru_api", arg |-> env_action,
                         value |-> res.value, raised |-> res.raised,
                         call |-> res.call]
          /\ IF res.publish # <<>>
             THEN /\ nPub < MaxPublish
                  /\ nPub' = nPub + 1
                  /\ Publish(res.publish[1], "none", FALSE)
                  /\ UNCHANGED <<roles, member_addrs, enabled, log_file_path,
                                 nSetup>>
             ELSE UNCHANGED busVars
    /\ UNCHANGED <<runVars, idleSeen, readReg, writeReg, sinkVars>>

ApiNext ==
  \/ AddRoles
  \/ MarkAsReadable
  \/ MarkAsWriteable
  \/ ReadFromApi
  \/ WriteThruApi

ApiSpec == Init /\ [][ApiNext]_vars

\* ------------------------------------------------- the bus with its sink on
\* The state after enhanced_logger.configure(True, "p") at start-up; the setup
\* calls are counted from there.
SinkInit ==
  /\ roles = <<>>
  /\ member_addrs = <<>>
  /\ inbox = [r \in RoleObjs |-> <<>>]
  /\ history = <<>>
  /\ enabled = TRUE
  /\ log_file_path = "p"
  /\ logFile = [p \in LogPaths |-> <<>>]
  /\ ret = NoRet
  /\ routeLog = {}
  /\ nSetup = 0
  /\ nPub = 0
  /\ runPc = "idle"
  /\ runK = 0
  /\ round = 0
  /\ futures = <<>>
  /\ task = [r \in RoleObjs |-> "none"]
  /\ taskRound = [r \in RoleObjs |-> 0]
  /\ outer = OuterPending
  /\ failOrder = <<>>
  /\ callRet = NoCall
  /\ idleSeen = <<>>
  /\ readReg = <<>>
  /\ writeReg = <<>>
  /\ invoked = <<>>
  /\ file_lock = None
  /\ logThread = [t \in Threads |-> ThreadIdle]
  /\ logCalls = <<>>

SinkNext ==
  \/ AddRole
  \/ SetAddresses
  \/ PublishMessage

SinkSpec == SinkInit /\ [][SinkNext]_vars

\* ------------------------------------------------ concurrent log callers
\* A thread calls log_agent_message or log_api_request.  A disabled sink
\* returns at once, and so does _append_log_entry without a log file path;
\* otherwise the entry is built, stamped with the time of the call, and the
\* thread goes for the lock.
LogCall ==
  \E t \in Threads, event \in LogEvents :
    /\ logThread[t].pc = "idle"
    /\ Len(logCalls) < MaxLog
    /\ callRet' = [op |-> "log", arg |-> event, value |-> None, raised |-> None,
                   call |-> <<>>]
    /\ IF enabled /\ log_file_path # None
       THEN /\ logCalls' = Append(logCalls,
                   [entry |-> [event |-> event, timestamp |-> Len(logCalls) + 1],
                    path |-> log_file_path, fate |-> "pending"])
            /\ logThread' = [logThread EXCEPT
                   ![t] = [pc |-> "lock", call |-> Len(logCalls) + 1, entries |-> <<>>]]
       ELSE UNCHANGED <<logThread, logCalls>>
    /\ UNCHANGED <<busVars, runVars, idleSeen, apiVars, file_lock>>

\* The thread enters the with block of _append_log_entry.
LogAcquire ==
  \E t \in Threads :
    /\ logThread[t].pc = "lock"
    /\ LockFree(file_lock)
    /\ file_lock' = t
    /\ logThread' = [logThread EXCEPT ![t].pc = "read"]
    /\ UNCHANGED <<busVars, runVars, callVars, logCalls>>

\* The thread reads the entries the file holds (none when the file is missing
\* or does not parse).
LogRead ==
  \E t \in Threads :
    /\ logThread[t].pc = "read"
    /\ logThread' = [logThread EXCEPT ![t].pc = "write",
                                      ![t].entries = logFile[log_file_path]]
    /\ UNCHANGED <<busVars, runVars, callVars, file_lock, logCalls>>

\* The thread appends its entry to what it read, writes the file back and
\* leaves the with block.  A failing write is caught; it leaves the file as it
\* was or truncated.
LogWrite ==
  \E t \in Threads, fault \in {"none", "io"}, truncated \in BOOLEAN :
    /\ logThread[t].pc = "write"
    /\ truncated => fault = "io"
    /\ logFile' = [logFile EXCEPT ![log_file_path] =
                     IF fault = "none"
                     THEN Append(logThread[t].entries, logCalls[logThread[t].call].entry)
                     ELSE IF truncated THEN <<>> ELSE @]
    /\ logCalls' = [logCalls EXCEPT ![logThread[t].call].fate = fault]
    /\ file_lock' = IF file_lock = t THEN None ELSE file_lock
    /\ logThread' = [logThread EXCEPT ![t] = ThreadIdle]
    /\ UNCHANGED <<roles, member_addrs, inbox, history, enabled, log_file_path,
                   ret, routeLog, nSetup, nPub, runVars, callVars>>

\* The sink is configured while no thread is inside a log call.
ConfigureQuiet ==
  /\ \A t \in Threads : logThread[t].pc = "idle"
  /\ Configure

LogNext ==
  \/ ConfigureQuiet
  \/ LogCall
  \/ LogAcquire
  \/ LogRead
  \/ LogWrite

LogSpec == Init /\ [][LogNext]_vars

\* ------------------------------------------------- direct calls of the sink
\* One caller at a time calls the sink, outside any publish_message.  The call
\* is counted when it gets as far as the log file.
SinkCall(op, files, fault) ==
  /\ runPc = "idle"
  /\ \A t \in Threads : logThread[t].pc = "idle"
  /\ LockFree(file_lock)
  /\ enabled /\ log_file_path # None => Len(logCalls) < MaxLog
  /\ logFile' = files
  /\ logCalls' = IF enabled /\ log_file_path # None
                 THEN Append(logCalls, [entry |-> [event |-> op, timestamp |-> Len(logCalls) + 1],
                                        path |-> log_file_path, fate |-> fault])
                 ELSE logCalls
  /\ callRet' = [op |-> op, arg |-> None, value |-> None, raised |-> None,
                 call |-> <<>>]
  /\ UNCHANGED <<roles, member_addrs, inbox, history, enabled, log_file_path, ret,
                 routeLog, nSetup, nPub, runVars, idleSeen, apiVars, file_lock,
                 logThread>>

LogAgentMessage ==
  \E m \in KickoffMessages, fault \in {"none", "io"}, truncated \in BOOLEAN :
    /\ CanFail(fault, truncated)
    /\ SinkCall("log_agent_message",
                log_agent_message(enabled, log_file_path, logFile,
                                  _format_sender(roles, m),
                                  _format_recipients(member_addrs, m),
                                  m.content, fault, truncated),
                fault)

LogApiRequest ==
  \E fault \in {"none", "io"}, truncated \in BOOLEAN :
    /\ CanFail(fault, truncated)
    /\ SinkCall("log_api_request",
                log_api_request(enabled, log_file_path, logFile,
                                <<"gpt">>, <<"ask">>, <<"answer">>, fault, truncated),
                fault)

QuietNext ==
  \/ AddRole
  \/ Configure
  \/ PublishKickoff
  \/ LogAgentMessage
  \/ LogApiRequest

QuietSpec == Init /\ [][QuietNext]_vars

\* -------------------------------------------------------- address queries
\* Environment.get_addresses(obj) is called.
GetAddresses ==
  \E r \in RoleObjs :
    /\ runPc = "idle"
    /\ callRet' = [op |-> "get_addresses", arg |-> r,
                   value |-> get_addresses(member_addrs, r), raised |-> None,
                   call |-> <<>>]
    /\ UNCHANGED <<busVars, runVars, idleSeen, apiVars, sinkVars>>

AddrNext ==
  \/ AddRole
  \/ SetAddresses
  \/ GetAddresses
  \/ PublishKickoff

AddrSpec == Init /\ [][AddrNext]_vars

\* ------------------------------------------------------ sender formatting
\* The sent_from values formatted: none, role names, class paths that do and
\* do not name a registered role's class, and names nobody has.
FormatSenders ==
  Senders \cup {<<"Bob">>, <<"pkg", Dot, "Coder">>, <<"lib", Dot, "Coder">>,
                <<"main", Dot, "Coder">>, <<"Zed">>, <<"main", Dot, "Zed">>}
FormatMessages == [content : Contents, sent_from : FormatSenders, send_to : {{ALL}}]

\* Environment._format_sender(message) is called.
FormatSender ==
  \E message \in FormatMessages :
    /\ runPc = "idle"
    /\ callRet' = [op |-> "_format_sender", arg |-> message,
                   value |-> _format_sender(roles, message), raised |-> None,
                   call |-> <<>>]
    /\ UNCHANGED <<busVars, runVars, idleSeen, apiVars, sinkVars>>

\* Environment._find_sender_role(sent_from) is called.
FindSenderRole ==
  \E sent_from \in FormatSenders :
    /\ runPc = "idle"
    /\ callRet' = [op |-> "_find_sender_role", arg |-> sent_from,
                   value |-> _find_sender_role(roles, sent_from), raised |-> None,
                   call |-> <<>>]
    /\ UNCHANGED <<busVars, runVars, idleSeen, apiVars, sinkVars>>

FormatNext ==
  \/ AddRole
  \/ AddRoles
  \/ FormatSender
  \/ FindSenderRole

FormatSpec == Init /\ [][FormatNext]_vars

\* The scheduler with its progress assumptions: the event loop resumes run
\* whenever it can go on, and every dispatched role run starts and ends.
RunFairSpec ==
  /\ RunSpec
  /\ WF_vars(RoundCollect)
  /\ WF_vars(RunReturn)
  /\ WF_vars(GatherWake)
  /\ WF_vars(TaskStart)
  /\ WF_vars(TaskEnd)

\* ================================================================ claims
\* A step that is one publish_message call.
IsPublishStep == nPub' = nPub + 1

RECURSIVE IsSubseq(_, _)
IsSubseq(s, t) ==
  IF s = <<>> THEN TRUE
  ELSE IF t = <<>> THEN FALSE
  ELSE IF Head(s) = Head(t) THEN IsSubseq(Tail(s), Tail(t))
  ELSE IsSubseq(s, Tail(t))

\* C1: publish_message(M) puts M into the inbox of every agent whose address
\* set matches M exactly once and at the tail, so that every inbox lists its
\* messages in the order publish_message was called.
C1_DeliveredOnceAtTail ==
  /\ [][IsPublishStep =>
          \A i \in 1..Len(member_addrs) :
            is_send_to(ret'.msg, member_addrs[i].addrs) =>
              inbox'[member_addrs[i].role]
                = Append(inbox[member_addrs[i].role], ret'.msg)]_vars
  /\ [](\A r \in RoleObjs : IsSubseq(inbox[r], history))

C1_Witness ==
  \E r \in RoleObjs :
    /\ Len(inbox[r]) = 2
    /\ inbox[r][1] # inbox[r][2]
    /\ inbox[r] = history

\* C2: publish_message(M) delivers M to exactly the agents of the address
\* table whose address set intersects M's target (or all of them when M
\* targets ALL): each of them receives M, every other inbox is unchanged.
C2_ExactFanout ==
  [][IsPublishStep =>
       \A r \in RoleObjs :
         LET matching ==
               \E i \in 1..Len(member_addrs) :
                 /\ member_addrs[i].role = r
                 /\ \/ member_addrs[i].addrs \cap ret'.msg.send_to # {}
                    \/ ALL \in ret'.msg.send_to
         IN IF matching
            THEN /\ Len(inbox'[r]) = Len(inbox[r]) + 1
                 /\ inbox'[r][Len(inbox'[r])] = ret'.msg
            ELSE inbox'[r] = inbox[r]]_vars

C2_Witness ==
  /\ ret.op = "publish"
  /\ ALL \notin ret.msg.send_to
  /\ Len(member_addrs) = 2
  /\ Len(ret.to) = 1
  /\ \E i, j \in 1..2 :
       /\ inbox[member_addrs[i].role] = <<ret.msg>>
       /\ inbox[member_addrs[j].role] = <<>>
       /\ member_addrs[j].addrs # {}

\* C3: a message that targets the ALL sentinel is delivered to every agent
\* with a non-empty address set.
C3_AllReachesEveryone ==
  [][(IsPublishStep /\ ALL \in ret'.msg.send_to) =>
       \A i \in 1..Len(member_addrs) :
         member_addrs[i].addrs # {} =>
           /\ inbox'[member_addrs[i].role] # inbox[member_addrs[i].role]
           /\ member_addrs[i].role \in Range(ret'.to)]_vars

C3_Witness ==
  /\ ret.op = "publish"
  /\ ret.msg.send_to = {ALL}
  /\ Len(ret.to) = 2
  /\ Len(member_addrs) = 2
  /\ member_addrs[1].addrs \cap member_addrs[2].addrs = {}
  /\ \A i \in 1..2 : member_addrs[i].addrs # {} /\ inbox[member_addrs[i].role] # <<>>

\* C4 as stated: publish_message returns whether at least one recipient
\* matched, false when no agent matches.
C4_ReturnsWhetherMatched ==
  ret.op = "publish" => ret.value = (ret.to # <<>>)

\* C4 as amended: publish_message returns true whether or not an agent
\* matched; no recipient is reported by the warning only.
C4_ReturnsTrueAndWarns ==
  ret.op = "publish" =>
    /\ ~ret.raised
    /\ ret.value = TRUE
    /\ ret.warned <=> ret.to = <<>>

C4_Witness ==
  /\ ret.op = "publish"
  /\ member_addrs # <<>>
  /\ ret.to = <<>>
  /\ ret.warned
  /\ ret.value = TRUE

\* C5: every publish_message call appends its message to the history exactly
\* once, whether or not an agent matched, and nothing else changes the
\* history: it is the sequence of the published messages, in publish order.
C5_HistoryAppendOnly ==
  [][\/ IsPublishStep /\ history' = Append(history, ret'.msg)
     \/ nPub' = nPub /\ history' = history]_vars

C5_Witness ==
  /\ Len(history) = 2
  /\ ret.op = "publish"
  /\ ret.to = <<>>
  /\ history[2] = ret.msg
  /\ member_addrs # <<>>
  /\ inbox[member_addrs[1].role] = <<history[1]>>

\* C6: a failure of the log sink or of the sender/recipient formatting during
\* publish_message is swallowed: the call does not raise, and the inboxes and
\* the history change as they do when nothing fails.
C6_SinkFailureSwallowed ==
  [][(IsPublishStep /\ ret'.fault # "none") =>
       /\ ~ret'.raised
       /\ ret'.value = TRUE
       /\ history' = Append(history, ret'.msg)
       /\ \A r \in RoleObjs :
            inbox'[r] = IF is_send_to(ret'.msg, get_addresses(member_addrs, r))
                           /\ r \in TableRoles(member_addrs)
                        THEN Append(inbox[r], ret'.msg) ELSE inbox[r]]_vars

C6_Witness ==
  /\ ret.op = "publish"
  /\ ret.fault = "io"
  /\ enabled
  /\ ret.to # <<>>
  /\ history = <<ret.msg>>
  /\ \A i \in 1..Len(ret.to) : inbox[ret.to[i]] = <<ret.msg>>

\* C7: routing does not depend on the sender resolver or on the logging
\* layer: two publishes with the same target against the same address table
\* deliver to the same set of agents, whatever the sent_from values, the
\* registered roles and the state of the log sink.
C7_RoutingIndependent ==
  \A a, b \in routeLog :
    (a.send_to = b.send_to /\ a.table = b.table) => a.to = b.to

C7_Witness ==
  /\ Len(history) = 2
  /\ history[1].send_to = history[2].send_to
  /\ history[1].sent_from = <<"Alice">>
  /\ history[2].sent_from = <<>>
  /\ Cardinality(routeLog) = 1
  /\ ret.fault = "format"
  /\ \E r \in RoleObjs : RoleName[r] = <<"Alice">> /\ r \in Range(ret.to) /\ r \in Range(roles)

\* C8: in run(k) the rounds are separated by a barrier: no agent run of a
\* later round is started, and no is_idle of a later round is collected,
\* until every agent run dispatched in the round before has completed.
C8_RoundBarrier ==
  /\ \A r, q \in RoleObjs :
       (taskRound[r] # 0 /\ taskRound[r] < taskRound[q]) => task[r] = "done"
  /\ runPc = "loop" => \A r \in RoleObjs : task[r] \in {"none", "done"}

C8_Witness ==
  \E r, q \in RoleObjs :
    /\ taskRound[r] = 1 /\ task[r] = "done"
    /\ taskRound[q] = 2 /\ task[q] = "running"
    /\ round = 1

\* C9: in each round of run the agents dispatched are exactly the registered
\* agents that are not idle when the round collects them, each once; an idle
\* agent is not dispatched, and the round is over only when every run
\* dispatched has finished.
C9_DispatchExactlyNonIdle ==
  [][LET NonIdle == {r \in Range(roles) : ~role_is_idle(inbox, r)}
         Dispatch ==
           (runPc = "loop" /\ runPc' = "awaiting") =>
             /\ NonIdle # {}
             /\ Range(futures') = NonIdle
             /\ Cardinality(Range(futures')) = Len(futures')
             /\ \A r \in RoleObjs :
                  task'[r] = IF r \in NonIdle THEN "pending" ELSE task[r]
         EmptyRound ==
           (runPc = "loop" /\ round' = round + 1) => (NonIdle = {} /\ task' = task)
         RoundOver ==
           (runPc = "awaiting" /\ round' = round + 1) =>
             \A r \in Range(futures) : task[r] = "done"
     IN Dispatch /\ EmptyRound /\ RoundOver]_vars

C9_Witness ==
  /\ round >= 1
  /\ Len(roles) = 3
  /\ Len(futures) = 2
  /\ \A r \in Range(futures) : task[r] = "done" /\ taskRound[r] = round
  /\ \E r \in Range(roles) : task[r] = "none"

\* C10 as stated: when an agent's run raises in a round, run re-raises the
\* failure only after every agent run dispatched in that round has been
\* awaited to completion or failure.
C10_RaisesAfterAllAwaited ==
  runPc = "raised" => \A r \in Range(futures) : task[r] \in {"done", "failed"}

\* C10 as amended: when an agent's run raises in a round, the first failure
\* is set on the awaited future at once and it is the one run re-raises,
\* whether or not the other runs dispatched in that round have finished.
C10_RaisesFirstFailure ==
  /\ failOrder # <<>> =>
       /\ outer = [state |-> "exception", exc |-> failOrder[1]]
       /\ task[failOrder[1]] = "failed"
  /\ runPc = "raised" => failOrder # <<>>

C10_Witness ==
  /\ runPc = "raised"
  /\ Len(futures) = 2
  /\ \E r \in Range(futures) : task[r] \in {"pending", "running"}

\* C11: run(k) returns only after exactly k rounds and ends otherwise only when
\* a role run failed; a round that finds no role to run dispatches nothing and
\* still counts as one round; and when every dispatched role run ends, run(k)
\* itself ends.
C11_ExactlyKRounds ==
  /\ [](runPc = "returned" => round = runK)
  /\ [](runPc = "raised" => failOrder # <<>>)
  /\ [][round' # round /\ runPc # "idle" => round' = round + 1]_vars
  /\ [][runPc = "loop" /\ round < runK /\ CollectFutures(roles, inbox) = <<>>
          => round' = round + 1 /\ runPc' = "loop"
             /\ UNCHANGED <<task, taskRound, inbox>>]_vars
  /\ (runPc \in {"loop", "awaiting"}) ~> (runPc \in {"returned", "raised"})

\* A run(2) has returned whose first round ran a role and whose second round
\* found nothing to run.
C11_Witness ==
  /\ runPc = "returned"
  /\ runK = 2
  /\ round = 2
  /\ \E r \in RoleObjs : taskRound[r] = 1
  /\ \A r \in RoleObjs : taskRound[r] <= 1

\* C12: whenever is_idle is read, it returns TRUE exactly when every registered
\* role is idle, and so TRUE when no role is registered.
C12_IdleIffAllIdle ==
  callRet.op = "is_idle" =>
    (callRet.value <=> \A r \in Range(roles) : role_is_idle(inbox, r))

\* is_idle has been read as FALSE with one registered role idle and another not.
C12_Witness ==
  /\ callRet.op = "is_idle"
  /\ callRet.value = FALSE
  /\ \E r, q \in Range(roles) : role_is_idle(inbox, r) /\ ~role_is_idle(inbox, q)

\* C13 as stated: a read of is_idle changes no state and returns what is_idle
\* first returned since run was last called.
C13_SameUntilNextRun ==
  [][callRet'.op = "is_idle"
       => /\ UNCHANGED <<busVars, runVars, apiVars>>
          /\ idleSeen # <<>> => callRet'.value = idleSeen[1]]_vars

\* C13, amended: a read of is_idle changes no state, and a read that directly
\* follows another read, with no other operation in between, returns the same
\* value.
C13_SameOnRepeatedRead ==
  [][callRet'.op = "is_idle"
       => /\ UNCHANGED <<busVars, runVars, apiVars>>
          /\ callRet.op = "is_idle" => callRet'.value = callRet.value]_vars

\* is_idle has been read as FALSE, and FALSE again by the next read, with a
\* message waiting in some registered role's buffer.
C13_Witness ==
  /\ callRet.op = "is_idle"
  /\ callRet.value = FALSE
  /\ idleSeen = <<FALSE>>
  /\ \E r \in Range(roles) : inbox[r] # <<>>

\* C14: marking a function as readable (as writeable) under a name the read
\* (the write) registry already holds raises DuplicateCapabilityError and
\* leaves both registries, and so the entry registered before, as they were.
C14_DuplicateRejected ==
  [][/\ (/\ callRet'.op = "mark_as_readable"
          /\ nSetup' = nSetup + 1
          /\ FuncName[callRet'.arg] \in RegNames(readReg))
         => /\ callRet'.raised = "DuplicateCapabilityError"
            /\ UNCHANGED <<readReg, writeReg>>
     /\ (/\ callRet'.op = "mark_as_writeable"
          /\ nSetup' = nSetup + 1
          /\ FuncName[callRet'.arg] \in RegNames(writeReg))
         => /\ callRet'.raised = "DuplicateCapabilityError"
            /\ UNCHANGED <<readReg, writeReg>>]_vars

\* A second function named like a registered write function was marked as
\* writeable and rejected; the first one is still the registered entry.
C14_Witness ==
  /\ callRet.op = "mark_as_writeable"
  /\ callRet.raised = "DuplicateCapabilityError"
  /\ \E i \in 1..Len(writeReg) :
       /\ writeReg[i].name = FuncName[callRet.arg]
       /\ writeReg[i].func # callRet.arg

\* C15: a read_from_api of a name the read registry does not hold, and a
\* write_thru_api of a name the write registry does not hold, given as a plain
\* name or as a descriptor, raises UnknownCapabilityError and calls no function,
\* whatever the other registry holds.
C15_UnknownNameFails ==
  /\ (callRet.op = "read_from_api" /\ callRet.arg.api_name \notin RegNames(readReg))
       => callRet.raised = "UnknownCapabilityError" /\ callRet.call = <<>>
  /\ (/\ callRet.op = "write_thru_api"
      /\ callRet.arg.kind # "Message"
      /\ callRet.arg.api_name \notin RegNames(writeReg))
       => callRet.raised = "UnknownCapabilityError" /\ callRet.call = <<>>

\* C16: a read_from_api or write_thru_api given a plain name or a descriptor
\* calls the function registered under that name, and given a plain name it
\* ends as the same call given a descriptor of that name without arguments.
C16_NameEqualsDescriptor ==
  (callRet.op \in {"read_from_api", "write_thru_api"} /\ callRet.arg.kind # "Message")
    => LET reg == IF callRet.op = "read_from_api" THEN readReg ELSE writeReg
           plain == ByDescriptor(callRet.arg.api_name, <<>>, {})
           viaDescriptor == IF callRet.op = "read_from_api"
                            THEN read_from_api(readReg, plain)
                            ELSE write_thru_api(writeReg, plain)
       IN /\ callRet.arg.api_name \in RegNames(reg)
             => /\ Len(callRet.call) = 1
                /\ get_function_schema(callRet.call[1].func) \in Range(reg)
                /\ FuncName[callRet.call[1].func] = callRet.arg.api_name
          /\ callRet.arg.kind = "str"
             => /\ callRet.value = viaDescriptor.value
                /\ callRet.raised = viaDescriptor.raised
                /\ callRet.call = viaDescriptor.call

\* C17: a write_thru_api given a Message does what one publish_message of that
\* message does to the buffers and the history, returns None, and neither
\* consults a registry nor calls a registered function.
C17_MessageIsPublished ==
  [][(callRet'.op = "write_thru_api" /\ callRet'.arg.kind = "Message")
       => LET message == callRet'.arg.msg
              rt == Route(member_addrs, inbox, message)
          IN /\ inbox' = rt.inbox
             /\ history' = history_add(history, message)
             /\ ret'.op = "publish"
             /\ ret'.msg = message
             /\ nPub' = nPub + 1
             /\ callRet'.call = <<>>
             /\ callRet'.raised = None
             /\ callRet'.value = <<>>
             /\ UNCHANGED <<invoked, readReg, writeReg>>]_vars

\* A Message given to write_thru_api reached the buffer of a registered role
\* while a write function stood registered; no function has been called.
C17_Witness ==
  /\ callRet.op = "write_thru_api"
  /\ callRet.arg.kind = "Message"
  /\ \E r \in Range(roles) : callRet.arg.msg \in Range(inbox[r])
  /\ writeReg # <<>>
  /\ invoked = <<>>

\* C18: _format_sender gives "Unknown" for an empty sent_from; with a role
\* registered, it gives Name(Class) of that role for a sent_from equal to the
\* role's name, and also for a dotted sent_from whose last segment is the
\* role's class when no other registered role has that class; so "Alice(Coder)"
\* for Alice, a Coder.
C18_FormatsNameAndClass ==
  callRet.op = "_format_sender" =>
    LET sent_from == callRet.arg.sent_from
    IN /\ sent_from = <<>> => callRet.value = <<"Unknown">>
       /\ \A r \in Range(roles) :
            LET formatted == RoleName[r] \o <<"(">> \o RoleClass[r] \o <<")">>
                sameClass == {q \in Range(roles) : RoleClass[q] = RoleClass[r]}
            IN /\ sent_from = RoleName[r] => callRet.value = formatted
               /\ (/\ sent_from # <<>>
                   /\ Dot \in Range(sent_from)
                   /\ LastSegment(sent_from) = RoleClass[r]
                   /\ sameClass = {r})
                  => callRet.value = formatted

\* "main.Coder" has been formatted as "Alice(Coder)" with Alice the only Coder
\* among two registered roles.
C18_Witness ==
  /\ callRet.op = "_format_sender"
  /\ callRet.arg.sent_from = <<"main", Dot, "Coder">>
  /\ Range(roles) = {"r1", "r2"}
  /\ callRet.value = <<"Alice", "(", "Coder", ")">>

\* No registered role has sent_from as its name or as its module.Class string,
\* nor, for a dotted sent_from, its last segment as its class.
NoStrategyMatches(rls, sent_from) ==
  \A r \in Range(rls) :
    /\ RoleName[r] # sent_from
    /\ any_to_str(r) # sent_from
    /\ Dot \in Range(sent_from) => RoleClass[r] # LastSegment(sent_from)

\* C19 as stated: a non-empty sent_from that no strategy matches is formatted
\* as itself, dotted or not.
C19_FallbackIsRaw ==
  (/\ callRet.op = "_format_sender"
   /\ callRet.arg.sent_from # <<>>
   /\ NoStrategyMatches(roles, callRet.arg.sent_from))
    => callRet.value = callRet.arg.sent_from

\* C19, amended: a non-empty sent_from that no strategy matches is formatted as
\* itself when it holds no dot, and as "Unknown(<last segment>)" when it does.
C19_FallbackRawOrUnknownClass ==
  (/\ callRet.op = "_format_sender"
   /\ callRet.arg.sent_from # <<>>
   /\ NoStrategyMatches(roles, callRet.arg.sent_from))
    => callRet.value =
         IF Dot \in Range(callRet.arg.sent_from)
         THEN <<"Unknown", "(">> \o LastSegment(callRet.arg.sent_from) \o <<")">>
         ELSE callRet.arg.sent_from

\* "main.Zed" has been formatted as "Unknown(Zed)" with roles registered, none
\* of them a Zed.
C19_Witness ==
  /\ callRet.op = "_format_sender"
  /\ callRet.arg.sent_from = <<"main", Dot, "Zed">>
  /\ roles # <<>>
  /\ callRet.value = <<"Unknown", "(", "Zed", ")">>

\* C20: set_addresses(obj, S) leaves obj with exactly one entry, holding S, and
\* every other entry as it was; get_addresses(obj) changes nothing and returns
\* the set of obj's entry, so S right after set_addresses(obj, S), and the empty
\* collection for an object without an entry, which still has none afterwards;
\* and a published message reaches every object whose set holds an address it
\* targets, however many objects share that address.
C20_AddressTable ==
  [][/\ (callRet'.op = "set_addresses" /\ nSetup' = nSetup + 1)
         => LET r == callRet'.arg
                S == callRet'.value
                entries == {i \in 1..Len(member_addrs') : member_addrs'[i].role = r}
            IN /\ Cardinality(entries) = 1
               /\ \A i \in entries : member_addrs'[i].addrs = S
               /\ {e \in Range(member_addrs') : e.role # r}
                    = {e \in Range(member_addrs) : e.role # r}
     /\ callRet'.op = "get_addresses"
         => LET r == callRet'.arg
                entries == {e \in Range(member_addrs) : e.role = r}
            IN /\ UNCHANGED <<busVars, runVars, apiVars>>
               /\ entries = {} => callRet'.value = {}
               /\ \A e \in entries : callRet'.value = e.addrs
               /\ (callRet.op = "set_addresses" /\ callRet.arg = r)
                    => callRet'.value = callRet.value
     /\ nPub' = nPub + 1
         => \A e \in Range(member_addrs) :
              (e.addrs \cap ret'.msg.send_to # {})
                => inbox'[e.role] = Append(inbox[e.role], ret'.msg)]_vars

\* Bob was given Alice's address "x" by set_addresses, and a message to "x"
\* is in the buffers of both.
C20_Witness ==
  /\ get_addresses(member_addrs, "r1") = {"x"}
  /\ get_addresses(member_addrs, "r2") = {"x"}
  /\ ret.op = "publish"
  /\ ret.msg.send_to = {"x"}
  /\ ret.msg \in Range(inbox["r1"])
  /\ ret.msg \in Range(inbox["r2"])

\* C21: _find_sender_role returns the first registered role, in dict order,
\* whose name is sent_from; when there is none, the first whose module.Class
\* string is sent_from; when there is none either and sent_from is dotted, the
\* first whose class is its last segment; and None when nothing matches.  So a
\* match by name beats one by string or class, one by string beats one by class.
C21_FirstStrategyWins ==
  (callRet.op = "_find_sender_role" /\ callRet.arg # <<>>)
    => LET sent_from == callRet.arg
           First(among) ==
             IF among = {} THEN None
             ELSE roles[CHOOSE i \in 1..Len(roles) :
                          /\ roles[i] \in among
                          /\ \A j \in 1..(i - 1) : roles[j] \notin among]
           byName == {r \in Range(roles) : RoleName[r] = sent_from}
           byStr == {r \in Range(roles) :
                       RoleModule[r] \o <<Dot>> \o RoleClass[r] = sent_from}
           byClass == {r \in Range(roles) :
                         /\ Dot \in Range(sent_from)
                         /\ RoleClass[r] = LastSegment(sent_from)}
       IN callRet.value =
            IF byName # {} THEN First(byName)
            ELSE IF byStr # {} THEN First(byStr)
            ELSE First(byClass)

\* "pkg.Coder" was resolved to the role of that name although Alice, whose
\* class path it also is, was registered first.
C21_Witness ==
  /\ callRet.op = "_find_sender_role"
  /\ callRet.arg = <<"pkg", Dot, "Coder">>
  /\ roles = <<"r1", "r3">>
  /\ callRet.value = "r3"

\* C22: when a publish_message call gets its entry into the log file, the
\* recipients of that entry are the Name(Class) strings of exactly the roles
\* whose buffers the call delivered to, in the order of the address table.
C22_RecipientsAreDelivered ==
  [][LET path == log_file_path
         delivered == SeqFilter(TableKeys(member_addrs),
                                {r \in RoleObjs : inbox'[r] # inbox[r]})
     IN (/\ IsPublishStep
         /\ path # None
         /\ Len(logFile'[path]) = Len(logFile[path]) + 1)
        => /\ logFile'[path][Len(logFile'[path])].recipients
                = [i \in 1..Len(delivered) |->
                     RoleName[delivered[i]] \o <<"(">>
                       \o RoleClass[delivered[i]] \o <<")">>]
           /\ \A r \in Range(delivered) :
                inbox'[r] = Append(inbox[r], ret'.msg)]_vars

\* A message to everyone was logged with Bob before Alice, the order they
\* stand in the address table, and is in the buffers of both.
C22_Witness ==
  /\ TableKeys(member_addrs) = <<"r2", "r1">>
  /\ ret.op = "publish"
  /\ ret.msg.send_to = {ALL}
  /\ logFile["p"] # <<>>
  /\ logFile["p"][Len(logFile["p"])].recipients
       = <<<<"Bob", "(", "Tester", ")">>, <<"Alice", "(", "Coder", ")">>>>
  /\ ret.msg \in Range(inbox["r1"])
  /\ ret.msg \in Range(inbox["r2"])

\* C23: no role run is ever cancelled; once a run of a round has failed, every
\* other run dispatched in that round goes on as before, from pending to
\* running to done or failed, and does reach done or failed, also after run has
\* raised.
C23_SiblingsRunOn ==
  /\ [](\A r \in RoleObjs : task[r] # "cancelled")
  /\ [][\A r \in RoleObjs :
          (failOrder # <<>> /\ task'[r] # task[r])
            => \/ task[r] = "pending" /\ task'[r] = "running"
               \/ task[r] = "running" /\ task'[r] \in {"done", "failed"}]_vars
  /\ \A r \in RoleObjs :
       (failOrder # <<>> /\ task[r] \in {"pending", "running"})
         ~> (task[r] \in {"done", "failed"})

\* run has raised the first failure of a round, and a second run of that round
\* has since failed on its own.
C23_Witness ==
  /\ runPc = "raised"
  /\ Len(failOrder) = 2
  /\ failOrder[1] # failOrder[2]
  /\ outer.exc = failOrder[1]

\* C24: as long as no write of the log file has failed, every file holds, once
\* each, exactly the entries of the log calls that have finished on it, so none
\* is lost however the calls of the threads interleave, and all of them are
\* there when every call has finished; a thread reads and writes the file
\* only while it holds file_lock.
C24_NoLostUpdate ==
  /\ \A t \in Threads : logThread[t].pc \in {"read", "write"} => file_lock = t
  /\ (\A i \in 1..Len(logCalls) : logCalls[i].fate # "io")
       => \A path \in LogPaths :
            LET written == {logCalls[i].entry : i \in {j \in 1..Len(logCalls) :
                              logCalls[j].path = path /\ logCalls[j].fate = "none"}}
            IN /\ Range(logFile[path]) = written
               /\ Len(logFile[path]) = Cardinality(written)

\* Two overlapping log calls of two threads have both finished, the file holds
\* both entries, and the second call's entry was written before the first's.
C24_Witness ==
  /\ \A t \in Threads : logThread[t].pc = "idle"
  /\ Len(logCalls) = 2
  /\ \A i \in 1..2 : logCalls[i].fate = "none" /\ logCalls[i].path = "p"
  /\ Len(logFile["p"]) = 2
  /\ logFile["p"][1].timestamp = 2

\* s is t with zero or more elements appended.
IsPrefixOf(s, t) == Len(s) <= Len(t) /\ SubSeq(t, 1, Len(s)) = s

\* C25: a role that a round of run did not collect is not started while that
\* round is awaited, and what is published to it meanwhile stays in its buffer;
\* roles are dispatched only when a round collects, and a round that collects
\* dispatches every registered role whose buffer is not empty; so when run
\* returns with a message in the buffer of a registered role, the environment
\* is not idle.
C25_LateMessageWaitsForNextRound ==
  /\ [][runPc = "awaiting" =>
          \A r \in Range(roles) \ Range(futures) :
            /\ task'[r] = task[r]
            /\ taskRound'[r] = taskRound[r]
            /\ IsPrefixOf(inbox[r], inbox'[r])]_vars
  /\ [][\A r \in RoleObjs :
          task'[r] = "pending" /\ task[r] # "pending"
            => runPc = "loop" /\ round < runK /\ taskRound'[r] = round + 1]_vars
  /\ [][runPc = "loop" /\ round < runK /\ (round' # round \/ runPc' # runPc) =>
          \A r \in Range(roles) :
            inbox[r] # <<>> => task'[r] = "pending" /\ taskRound'[r] = round + 1]_vars
  /\ [][runPc = "loop" /\ runPc' = "returned" =>
          /\ inbox' = inbox
          /\ (\E r \in Range(roles) : inbox[r] # <<>>) => ~is_idle(roles', inbox')]_vars

\* run(1) has returned; its only round ran one role, which published a
\* message to a role that the round had not collected, and that message is
\* still in that role's buffer.
C25_Witness ==
  /\ runPc = "returned"
  /\ runK = 1
  /\ \E r, s \in Range(roles) :
       /\ taskRound[s] = 1
       /\ task[s] = "done"
       /\ taskRound[r] = 0
       /\ task[r] = "none"
       /\ Len(inbox[r]) = 1
       /\ inbox[r][1].sent_from = RoleName[s]
  /\ ~is_idle(roles, inbox)

\* C26: when a role run raises, the failure is set on the awaited future, run
\* resumes by raising it and does so as long as the event loop runs it;
\* once run has raised, it stays so: no further round is counted, no futures
\* are collected and no role run is dispatched.
C26_FailureEndsRun ==
  /\ [](failOrder # <<>> => outer.state = "exception")
  /\ [][runPc = "awaiting" /\ outer.state = "exception" /\ runPc' # runPc
          => runPc' = "raised" /\ round' = round]_vars
  /\ [][runPc = "raised" =>
          /\ runPc' = "raised"
          /\ round' = round
          /\ futures' = futures
          /\ taskRound' = taskRound
          /\ \A r \in RoleObjs : task'[r] = "pending" => task[r] = "pending"]_vars
  /\ (failOrder # <<>>) ~> (runPc = "raised")

\* run(2) has raised out of its first round, with the second round never
\* begun, and the role that was not collected has a message waiting.
C26_Witness ==
  /\ runPc = "raised"
  /\ runK = 2
  /\ round = 0
  /\ \A r \in RoleObjs : taskRound[r] <= 1
  /\ \E r \in Range(roles) : taskRound[r] = 0 /\ inbox[r] # <<>>

\* C27: while the sink is disabled, a call of log_agent_message or of
\* log_api_request leaves the log files and the sink's own state as they
\* were, and so does the logging inside publish_message; and whether the
\* sink is enabled or not, publish_message puts the message in the same
\* buffers and adds it to the history.
C27_DisabledSinkIsNoOp ==
  /\ [][~enabled /\ callRet'.op \in {"log_agent_message", "log_api_request"}
          => UNCHANGED <<logFile, enabled, log_file_path, sinkVars>>]_vars
  /\ [][~enabled /\ nPub' = nPub + 1
          => UNCHANGED <<logFile, enabled, log_file_path, sinkVars>>]_vars
  /\ [][nPub' = nPub + 1
          => /\ inbox' = Route(member_addrs, inbox, ret'.msg).inbox
             /\ history' = history_add(history, ret'.msg)
             /\ ret'.value = TRUE]_vars

\* The sink was enabled, logged one entry to its file and was disabled
\* again; a log_api_request call made since has left the file at that entry.
C27_Witness ==
  /\ ~enabled
  /\ log_file_path = "p"
  /\ callRet.op = "log_api_request"
  /\ Len(logCalls) = 1
  /\ Len(logFile["p"]) = 1

====
